---- MODULE Spec2Model ----
(***************************************************************************)
(* Daily Blade audit proxy (worker/audit-proxy.js): the fetch handler of   *)
(* the Cloudflare Worker, as a state machine.                              *)
(*                                                                         *)
(* Strings on which the handler works character by character (paths,      *)
(* configuration values, body fields, the upstream body) are sequences of  *)
(* one-character strings.  A JavaScript value is a record [t, v, prim]:    *)
(* its type tag t, the characters v of String(value), and whether the      *)
(* conversion of the value to a primitive succeeds (String(value) throws   *)
(* a TypeError when it does not).                                          *)
(***************************************************************************)
EXTENDS Integers, Sequences, FiniteSets, TLC

VARIABLES env, req, calls

vars == <<env, req, calls>>

-----------------------------------------------------------------------------
(* JavaScript values *)

Value(t, v) == [t |-> t, v |-> v, prim |-> TRUE]

Undef == Value("undefined", <<"u", "n", "d", "e", "f", "i", "n", "e", "d">>)
Null == Value("null", <<"n", "u", "l", "l">>)
Str(s) == Value("string", s)
Num0 == Value("number", <<"0">>)
Num5 == Value("number", <<"5">>)
BoolTrue == Value("boolean", <<"t", "r", "u", "e">>)
BoolFalse == Value("boolean", <<"f", "a", "l", "s", "e">>)
EmptyArray == Value("array", <<>>)
PlainObject == Value("object", <<"[", "o", "b", "j", "e", "c", "t", " ", "O", "b", "j", "e", "c", "t", "]">>)

\* {"toString":1}: an object whose own toString is not a function, and whose
\* inherited valueOf gives the object back; it has no primitive value.
NoToString == [t |-> "object", v |-> <<>>, prim |-> FALSE]
\* [{"toString":1}]: joining the array converts its element
ArrayOfNoToString == [t |-> "array", v |-> <<>>, prim |-> FALSE]

\* The exception String(value) throws on a value with no primitive value, in
\* the place of the string it would have returned.  It is no string of
\* characters, and the string operations below hand it on unchanged, as the
\* exception passes through the expression that holds the call.
TypeError == <<"TypeError">>

\* ToBoolean: undefined, null, false, 0, NaN and '' are falsy; objects are truthy.
Truthy(x) ==
  CASE x.t = "undefined" -> FALSE
    [] x.t = "null" -> FALSE
    [] x.t = "string" -> x.v # <<>>
    [] x.t = "number" -> x.v \notin {<<"0">>, <<"N", "a", "N">>}
    [] x.t = "boolean" -> x.v = <<"t", "r", "u", "e">>
    [] OTHER -> TRUE

\* String(value): the characters of the value; a TypeError for an object or
\* array that cannot be converted to a primitive.
String(x) == IF x.prim THEN x.v ELSE TypeError

\* a || b
OrElse(a, b) == IF Truthy(a) THEN a ELSE b

-----------------------------------------------------------------------------
(* String helpers *)

\* White space characters that have no escape in a string literal, written
\* as the character itself: U+000B, U+00A0, U+FEFF, U+1680.
VerticalTab == ""
NoBreakSpace == " "
ByteOrderMark == "﻿"
OghamSpaceMark == " "

\* The white space of String.prototype.trim and of \s that a string of this
\* model can hold.  (The code also counts U+2000..U+200A, U+2028, U+2029,
\* U+202F, U+205F and U+3000, which a string literal cannot contain and no
\* input of the model has.)
WhiteSpace ==
  {" ", "\t", "\n", "\r", "\f",
   VerticalTab, NoBreakSpace, ByteOrderMark, OghamSpaceMark}

SetMin(S) == CHOOSE m \in S : \A k \in S : m <= k
SetMax(S) == CHOOSE m \in S : \A k \in S : m >= k

\* String.prototype.trim
trim(s) ==
  LET keep == {k \in 1..Len(s) : s[k] \notin WhiteSpace}
  IN IF keep = {} THEN <<>> ELSE SubSeq(s, SetMin(keep), SetMax(keep))

startsWith(s, p) == Len(s) >= Len(p) /\ SubSeq(s, 1, Len(p)) = p
endsWith(s, p) == Len(s) >= Len(p) /\ SubSeq(s, Len(s) - Len(p) + 1, Len(s)) = p

\* s.slice(from, to): from >= 0 counts from the start; to counts from the
\* start when >= 0 and from the end when < 0.
slice(s, from, to) ==
  LET hi == IF to < 0 THEN Len(s) + to ELSE IF to > Len(s) THEN Len(s) ELSE to
  IN IF hi <= from THEN <<>> ELSE SubSeq(s, from + 1, hi)

\* s.replace(/^\/+/, '')
stripLeadingSlashes(s) ==
  LET keep == {k \in 1..Len(s) : s[k] # "/"}
  IN IF keep = {} THEN <<>> ELSE SubSeq(s, SetMin(keep), Len(s))

\* s.replace(/\/+$/, '')
stripTrailingSlashes(s) ==
  LET keep == {k \in 1..Len(s) : s[k] # "/"}
  IN IF keep = {} THEN <<>> ELSE SubSeq(s, 1, SetMax(keep))

-----------------------------------------------------------------------------
(* Config sanitizer *)

isQuoted(s) ==
  \/ startsWith(s, <<"\"">>) /\ endsWith(s, <<"\"">>) /\ Len(s) >= 2
  \/ startsWith(s, <<"'">>) /\ endsWith(s, <<"'">>) /\ Len(s) >= 2

\* A sanitizer that forgets to trim inside the quotes.
cleanTextNoInnerTrim(value) ==
  IF value.t \in {"undefined", "null"} THEN <<>>
  ELSE IF String(value) = TypeError THEN TypeError
  ELSE LET s == trim(String(value))
       IN IF isQuoted(s) THEN slice(s, 1, -1) ELSE s

\* lines 23-33; the TypeError of String() leaves the function
cleanText(value) ==
  IF value.t \in {"undefined", "null"} THEN <<>>
  ELSE IF String(value) = TypeError THEN TypeError
  ELSE LET s == trim(String(value))
       IN IF isQuoted(s) THEN trim(slice(s, 1, -1)) ELSE s

GithubWorkflows == <<".", "g", "i", "t", "h", "u", "b", "/", "w", "o", "r", "k", "f", "l", "o", "w", "s", "/">>
DefaultWorkflow == <<"a", "u", "d", "i", "t", ".", "y", "m", "l">>
DefaultRef == <<"m", "a", "i", "n">>

\* The prefixes /^\s*\.?\/?\.github\/workflows\// can match after the
\* leading white space.
WorkflowPrefixes ==
  {h \o GithubWorkflows : h \in {<<>>, <<".">>, <<"/">>, <<".", "/">>}}

\* s.replace(/^\s*\.?\/?\.github\/workflows\//, '')
stripWorkflowsPrefix(s) ==
  LET keep == {k \in 1..Len(s) : s[k] \notin WhiteSpace}
      rest == IF keep = {} THEN <<>> ELSE SubSeq(s, SetMin(keep), Len(s))
      hit == {p \in WorkflowPrefixes : startsWith(rest, p)}
  IN IF hit = {} THEN s
     ELSE LET p == CHOOSE q \in hit : TRUE
          IN SubSeq(rest, Len(p) + 1, Len(rest))

\* lines 82-86: the workflow identifier from env.GH_WORKFLOW_FILE
sanitizeWorkflow(value) ==
  LET cleaned == cleanText(value)
      workflowInput == IF cleaned # <<>> THEN cleaned ELSE DefaultWorkflow
  IN IF cleaned = TypeError THEN TypeError
     ELSE trim(stripLeadingSlashes(stripWorkflowsPrefix(workflowInput)))

\* line 87
sanitizeRef(value) ==
  LET cleaned == cleanText(value)
  IN IF cleaned # <<>> THEN cleaned ELSE DefaultRef

-----------------------------------------------------------------------------
(* JSON.parse / request.json() *)

\* The result of parsing a text: ok is FALSE when the parser throws; val is
\* the parsed value; date, title and message are val.date, val.title and
\* val.message (undefined on a value that has no such property).
Parsed(val, date, title, message) ==
  [ok |-> TRUE, val |-> val, date |-> date, title |-> title, message |-> message]
SyntaxError ==
  [ok |-> FALSE, val |-> Undef, date |-> Undef, title |-> Undef, message |-> Undef]

\* {"date":"\td\n","title":" T "}: each escape is two characters of the text
PaddedBody ==
  <<"{", "\"", "d", "a", "t", "e", "\"", ":", "\"", "\\", "t", "d", "\\", "n", "\"", ",", "\"", "t", "i", "t", "l", "e", "\"", ":", "\"", " ", "T", " ", "\"", "}">>
\* {"date":"\r\n\u000b","title":"T"}
LineBreakBody ==
  <<"{", "\"", "d", "a", "t", "e", "\"", ":", "\"", "\\", "r", "\\", "n", "\\", "u", "0", "0", "0", "b", "\"", ",", "\"", "t", "i", "t", "l", "e", "\"", ":", "\"", "T", "\"", "}">>

\* JSON.parse on the texts of Bodies and Upstreams; every other text of
\* those sets ('', oops, a run of x) is not JSON.
JSONparse(text) ==
  CASE text = <<"n", "u", "l", "l">> -> Parsed(Null, Undef, Undef, Undef)
    [] text = <<"\"", "s", "t", "r", "\"">> -> Parsed(Str(<<"s", "t", "r">>), Undef, Undef, Undef)
    [] text = <<"{", "}">> -> Parsed(PlainObject, Undef, Undef, Undef)
    [] text = <<"{", "\"", "d", "a", "t", "e", "\"", ":", "\"", "2", "0", "2", "6", "-", "0", "1", "-", "0", "1", "\"", ",", "\"", "t", "i", "t", "l", "e", "\"", ":", "\"", "T", "h", "e", " ", "C", "r", "i", "m", "s", "o", "n", " ", "L", "e", "d", "g", "e", "r", "\"", "}">> ->
         Parsed(PlainObject, Str(<<"2", "0", "2", "6", "-", "0", "1", "-", "0", "1">>), Str(<<"T", "h", "e", " ", "C", "r", "i", "m", "s", "o", "n", " ", "L", "e", "d", "g", "e", "r">>), Undef)
    [] text = <<"{", "\"", "d", "a", "t", "e", "\"", ":", "\"", " ", "\"", ",", "\"", "t", "i", "t", "l", "e", "\"", ":", "\"", "T", "\"", "}">> ->
         Parsed(PlainObject, Str(<<" ">>), Str(<<"T">>), Undef)
    [] text = <<"{", "\"", "d", "a", "t", "e", "\"", ":", "\"", "d", "\"", ",", "\"", "t", "i", "t", "l", "e", "\"", ":", "\"", "\"", "}">> ->
         Parsed(PlainObject, Str(<<"d">>), Str(<<>>), Undef)
    [] text = <<"{", "\"", "d", "a", "t", "e", "\"", ":", "5", ",", "\"", "t", "i", "t", "l", "e", "\"", ":", "\"", "T", "\"", "}">> ->
         Parsed(PlainObject, Num5, Str(<<"T">>), Undef)
    [] text = <<"{", "\"", "d", "a", "t", "e", "\"", ":", "0", ",", "\"", "t", "i", "t", "l", "e", "\"", ":", "\"", "T", "\"", "}">> ->
         Parsed(PlainObject, Num0, Str(<<"T">>), Undef)
    [] text = <<"{", "\"", "d", "a", "t", "e", "\"", ":", "\"", "d", "\"", ",", "\"", "t", "i", "t", "l", "e", "\"", ":", "t", "r", "u", "e", "}">> ->
         Parsed(PlainObject, Str(<<"d">>), BoolTrue, Undef)
    [] text = <<"{", "\"", "d", "a", "t", "e", "\"", ":", "[", "]", ",", "\"", "t", "i", "t", "l", "e", "\"", ":", "\"", "T", "\"", "}">> ->
         Parsed(PlainObject, EmptyArray, Str(<<"T">>), Undef)
    [] text = <<"{", "\"", "d", "a", "t", "e", "\"", ":", "\"", "d", "\"", ",", "\"", "t", "i", "t", "l", "e", "\"", ":", "{", "}", "}">> ->
         Parsed(PlainObject, Str(<<"d">>), PlainObject, Undef)
    [] text = <<"{", "\"", "d", "a", "t", "e", "\"", ":", "\"", "d", "\"", "}">> ->
         Parsed(PlainObject, Str(<<"d">>), Undef, Undef)
    [] text = <<"{", "\"", "d", "a", "t", "e", "\"", ":", "n", "u", "l", "l", ",", "\"", "t", "i", "t", "l", "e", "\"", ":", "\"", "T", "\"", "}">> ->
         Parsed(PlainObject, Null, Str(<<"T">>), Undef)
    [] text = <<"{", "\"", "d", "a", "t", "e", "\"", ":", "f", "a", "l", "s", "e", ",", "\"", "t", "i", "t", "l", "e", "\"", ":", "\"", "T", "\"", "}">> ->
         Parsed(PlainObject, BoolFalse, Str(<<"T">>), Undef)
    [] text = <<"{", "\"", "t", "i", "t", "l", "e", "\"", ":", "{", "\"", "t", "o", "S", "t", "r", "i", "n", "g", "\"", ":", "1", "}", "}">> ->
         Parsed(PlainObject, Undef, NoToString, Undef)
    [] text = <<"{", "\"", "d", "a", "t", "e", "\"", ":", "{", "\"", "t", "o", "S", "t", "r", "i", "n", "g", "\"", ":", "1", "}", ",", "\"", "t", "i", "t", "l", "e", "\"", ":", "\"", "T", "\"", "}">> ->
         Parsed(PlainObject, NoToString, Str(<<"T">>), Undef)
    [] text = <<"{", "\"", "d", "a", "t", "e", "\"", ":", "\"", "d", "\"", ",", "\"", "t", "i", "t", "l", "e", "\"", ":", "[", "{", "\"", "t", "o", "S", "t", "r", "i", "n", "g", "\"", ":", "1", "}", "]", "}">> ->
         Parsed(PlainObject, Str(<<"d">>), ArrayOfNoToString, Undef)
    [] text = PaddedBody ->
         Parsed(PlainObject, Str(<<"\t", "d", "\n">>), Str(<<" ", "T", " ">>), Undef)
    [] text = LineBreakBody ->
         Parsed(PlainObject, Str(<<"\r", "\n", VerticalTab>>), Str(<<"T">>), Undef)
    [] text = <<"{", "\"", "m", "e", "s", "s", "a", "g", "e", "\"", ":", "\"", "W", "o", "r", "k", "f", "l", "o", "w", " ", "n", "o", "t", " ", "f", "o", "u", "n", "d", "\"", "}">> ->
         Parsed(PlainObject, Undef, Undef, Str(<<"W", "o", "r", "k", "f", "l", "o", "w", " ", "n", "o", "t", " ", "f", "o", "u", "n", "d">>))
    [] text = <<"{", "\"", "m", "e", "s", "s", "a", "g", "e", "\"", ":", "\"", "\"", "}">> ->
         Parsed(PlainObject, Undef, Undef, Str(<<>>))
    [] text = <<"{", "\"", "m", "e", "s", "s", "a", "g", "e", "\"", ":", "0", "}">> ->
         Parsed(PlainObject, Undef, Undef, Num0)
    [] text = <<"{", "\"", "m", "e", "s", "s", "a", "g", "e", "\"", ":", "5", "}">> ->
         Parsed(PlainObject, Undef, Undef, Num5)
    [] OTHER -> SyntaxError

-----------------------------------------------------------------------------
(* Responses *)

corsHeaders ==
  {"Access-Control-Allow-Origin", "Access-Control-Allow-Methods",
   "Access-Control-Allow-Headers"}

NoMissing == [GH_TOKEN |-> FALSE, GH_OWNER |-> FALSE, GH_REPO |-> FALSE]
NoConfig == [owner |-> <<>>, repo |-> <<>>, workflow |-> <<>>, ref |-> <<>>]

\* A response: its status, the names of its headers, the keys of its JSON
\* body (none when the body is null) and the values of those keys.
Response(status, headers, keys) ==
  [status |-> status, headers |-> headers, keys |-> keys,
   error |-> "", missing |-> NoMissing, upstream |-> 0,
   message |-> Str(<<>>), request_id |-> <<>>, raw |-> <<>>,
   config |-> NoConfig, ok |-> FALSE, queued |-> FALSE]

NoResponse == Response(0, {}, {})

\* line 43
Preflight == Response(204, corsHeaders, {})

\* lines 47-50, 56-59, 74-77
ErrorResponse(status, error) ==
  [Response(status, {"Content-Type"} \cup corsHeaders, {"error"})
     EXCEPT !.error = error]

\* lines 90-103
NotConfigured(missing) ==
  [Response(500, {"Content-Type"} \cup corsHeaders, {"error", "missing"})
     EXCEPT !.error = "Worker not configured", !.missing = missing]

\* lines 152-155
Queued ==
  [Response(200, {"Content-Type"} \cup corsHeaders, {"ok", "queued"})
     EXCEPT !.ok = TRUE, !.queued = TRUE]

-----------------------------------------------------------------------------
(* The handler, stage by stage *)

AuditPath == <<"/", "a", "u", "d", "i", "t">>

\* A routing check that forgets the method.
notFoundAnyMethod(request) ==
  stripTrailingSlashes(request.path) # AuditPath

\* line 46
notFound(request) ==
  request.method # "POST" \/ stripTrailingSlashes(request.path) # AuditPath

\* An auth gate that only compares a header that was sent.
unauthorizedWhenSent(request, e) ==
  /\ Truthy(e.DEV_AUTH_TOKEN)
  /\ Truthy(request.auth)
  /\ request.auth # e.DEV_AUTH_TOKEN

\* lines 53-55: request.auth is request.headers.get('X-Dev-Auth')
unauthorized(request, e) ==
  /\ Truthy(e.DEV_AUTH_TOKEN)
  /\ OrElse(request.auth, Str(<<>>)) # e.DEV_AUTH_TOKEN

\* A handler that runs the auth gate before the routing check.
admitAuthFirst(request, e) ==
  IF request.method = "OPTIONS"
    THEN [pc |-> "done", resp |-> Preflight, stages |-> <<"method/path">>]
  ELSE IF unauthorized(request, e)
    THEN [pc |-> "done", resp |-> ErrorResponse(401, "Unauthorized"),
          stages |-> <<"auth">>]
  ELSE IF notFound(request)
    THEN [pc |-> "done", resp |-> ErrorResponse(404, "Not found"),
          stages |-> <<"auth", "method/path">>]
  ELSE [pc |-> "json", resp |-> NoResponse, stages |-> <<"auth", "method/path">>]

\* lines 42-61: from the call of the handler to its first await
admit(request, e) ==
  IF request.method = "OPTIONS"
    THEN [pc |-> "done", resp |-> Preflight, stages |-> <<"method/path">>]
  ELSE IF notFound(request)
    THEN [pc |-> "done", resp |-> ErrorResponse(404, "Not found"),
          stages |-> <<"method/path">>]
  ELSE IF unauthorized(request, e)
    THEN [pc |-> "done", resp |-> ErrorResponse(401, "Unauthorized"),
          stages |-> <<"method/path", "auth">>]
  ELSE [pc |-> "json", resp |-> NoResponse, stages |-> <<"method/path", "auth">>]

\* lines 63-68: a body that does not parse is taken as null
requestJson(text) ==
  LET p == JSONparse(text)
  IN IF p.ok THEN p ELSE Parsed(Null, Undef, Undef, Undef)

\* lines 70-71: String(body && body.date ? body.date : '').trim(); the
\* TypeError of String() is not caught
field(body, value) ==
  LET s == String(IF Truthy(body) /\ Truthy(value) THEN value ELSE Str(<<>>))
  IN IF s = TypeError THEN TypeError ELSE trim(s)

\* A report that looks at the raw variables instead of the sanitized ones.
missingRaw(e) ==
  [GH_TOKEN |-> ~Truthy(e.GH_TOKEN),
   GH_OWNER |-> ~Truthy(e.GH_OWNER),
   GH_REPO |-> ~Truthy(e.GH_REPO)]

\* lines 93-97
missing(e) ==
  [GH_TOKEN |-> ~Truthy(e.GH_TOKEN),
   GH_OWNER |-> cleanText(e.GH_OWNER) = <<>>,
   GH_REPO |-> cleanText(e.GH_REPO) = <<>>]

NoLocals ==
  [date |-> <<>>, title |-> <<>>, owner |-> <<>>, repo |-> <<>>,
   workflow |-> <<>>, ref |-> <<>>]

\* lines 63-121: from the body's arrival to the outbound call.  Values are
\* converted to strings at lines 70, 71, in cleanText at lines 80-87, and in
\* the template `Bearer ${env.GH_TOKEN}` of line 114 while the arguments of
\* fetch are built, all outside any try/catch: the TypeError of a conversion
\* ends the handler without a response, and at line 114 before fetch is
\* called.
prepare(text, e) ==
  LET body == requestJson(text)
      date == field(body.val, body.date)
      title == field(body.val, body.title)
      owner == cleanText(e.GH_OWNER)
      repo == cleanText(e.GH_REPO)
      workflow == sanitizeWorkflow(e.GH_WORKFLOW_FILE)
      ref == sanitizeRef(e.GH_REF)
      locals == [date |-> date, title |-> title, owner |-> owner, repo |-> repo,
                 workflow |-> workflow, ref |-> ref]
  IN IF date = TypeError \/ title = TypeError
       THEN [pc |-> "threw", resp |-> NoResponse, stages |-> <<"body">>,
             locals |-> NoLocals]
     ELSE IF date = <<>> \/ title = <<>>
       THEN [pc |-> "done", resp |-> ErrorResponse(400, "Missing date/title"),
             stages |-> <<"body">>,
             locals |-> [NoLocals EXCEPT !.date = date, !.title = title]]
     ELSE IF TypeError \in {owner, repo, workflow, ref}
       THEN [pc |-> "threw", resp |-> NoResponse, stages |-> <<"body">>,
             locals |-> NoLocals]
     ELSE IF ~Truthy(e.GH_TOKEN) \/ owner = <<>> \/ repo = <<>>
       THEN [pc |-> "done", resp |-> NotConfigured(missing(e)),
             stages |-> <<"body", "config">>, locals |-> locals]
     ELSE IF String(e.GH_TOKEN) = TypeError
       THEN [pc |-> "threw", resp |-> NoResponse, stages |-> <<"body", "config">>,
             locals |-> NoLocals]
     ELSE [pc |-> "fetch", resp |-> NoResponse,
           stages |-> <<"body", "config", "network">>, locals |-> locals]

\* A success test that knows 200 only.
okOnly200(status) == status = 200

\* line 123: Response.ok
ok(status) == status \in 200..299

\* line 139
RawCap == 2000

\* lines 126-132
messageOf(raw) ==
  LET j == JSONparse(raw)
  IN IF j.ok /\ Truthy(j.val) /\ Truthy(j.message) THEN j.message ELSE Str(<<>>)

\* lines 134-149
DispatchFailed(status, requestId, raw, config) ==
  [Response(502, {"Content-Type"} \cup corsHeaders,
            {"error", "status", "message", "request_id", "raw", "config"})
     EXCEPT !.error = "GitHub dispatch failed",
            !.upstream = status,
            !.message = messageOf(raw),
            !.request_id = requestId,
            !.raw = IF raw # <<>> THEN slice(raw, 0, RawCap) ELSE <<>>,
            !.config = config]

-----------------------------------------------------------------------------
(* State *)

NoRequest == [method |-> "", path |-> <<>>, auth |-> Null, body |-> <<>>]

\* What the outbound call came to: threw when fetch rejected; otherwise the
\* upstream's status, its x-github-request-id header, its body, and whether
\* the body can be read.
NoUpstream ==
  [threw |-> FALSE, status |-> 0, request_id |-> Null, body |-> <<>>,
   readable |-> TRUE]

\* One invocation of the handler: where it is (idle, awaiting request.json(),
\* awaiting fetch, awaiting ghRes.text(), done with a response, or ended by
\* an exception of String(), fetch() or ghRes.text()), its request, its locals, the stages it has evaluated, the
\* outbound calls it has made, and its response.
Idle ==
  [pc |-> "idle", request |-> NoRequest, locals |-> NoLocals,
   up |-> NoUpstream, stages |-> <<>>, sent |-> 0, resp |-> NoResponse]

\* lines 20-65
Accept(i, request) ==
  /\ req[i].pc = "idle"
  /\ LET a == admit(request, env)
     IN req' = [req EXCEPT ![i] = [@ EXCEPT !.pc = a.pc,
                                            !.request = request,
                                            !.stages = a.stages,
                                            !.resp = a.resp]]
  /\ UNCHANGED <<env, calls>>

\* lines 65-121
BodySettles(i) ==
  /\ req[i].pc = "json"
  /\ LET p == prepare(req[i].request.body, env)
         n == IF p.pc = "fetch" THEN 1 ELSE 0
     IN /\ req' = [req EXCEPT ![i] = [@ EXCEPT !.pc = p.pc,
                                               !.locals = p.locals,
                                               !.stages = @ \o p.stages,
                                               !.sent = @ + n,
                                               !.resp = p.resp]]
        /\ calls' = calls + n
  /\ UNCHANGED env

\* lines 108-125 and 152-155
FetchSettles(i, u) ==
  /\ req[i].pc = "fetch"
  /\ req' = [req EXCEPT ![i] =
       IF u.threw
         THEN [@ EXCEPT !.pc = "threw", !.up = u]
       ELSE IF ok(u.status)
         THEN [@ EXCEPT !.pc = "done", !.up = u, !.stages = @ \o <<"translate">>,
                        !.resp = Queued]
       ELSE [@ EXCEPT !.pc = "text", !.up = u, !.stages = @ \o <<"translate">>]]
  /\ UNCHANGED <<env, calls>>

\* A translator that dispatches again when the upstream has failed.
TextSettlesRetry(i) ==
  /\ req[i].pc = "text"
  /\ req' = [req EXCEPT ![i] =
       IF req[i].up.readable
         THEN [@ EXCEPT !.pc = "fetch", !.sent = @ + 1]
       ELSE [@ EXCEPT !.pc = "threw"]]
  /\ calls' = IF req[i].up.readable THEN calls + 1 ELSE calls
  /\ UNCHANGED env

\* lines 125-150
TextSettles(i) ==
  /\ req[i].pc = "text"
  /\ req' = [req EXCEPT ![i] =
       IF req[i].up.readable
         THEN [@ EXCEPT !.pc = "done",
                        !.resp = DispatchFailed(
                                   req[i].up.status,
                                   OrElse(req[i].up.request_id, Str(<<>>)).v,
                                   req[i].up.body,
                                   [owner |-> req[i].locals.owner,
                                    repo |-> req[i].locals.repo,
                                    workflow |-> req[i].locals.workflow,
                                    ref |-> req[i].locals.ref])]
       ELSE [@ EXCEPT !.pc = "threw"]]
  /\ UNCHANGED <<env, calls>>

-----------------------------------------------------------------------------
(* Inputs *)

Env(dev, token, owner, repo, workflow, ref) ==
  [DEV_AUTH_TOKEN |-> dev, GH_TOKEN |-> token, GH_OWNER |-> owner,
   GH_REPO |-> repo, GH_WORKFLOW_FILE |-> workflow, GH_REF |-> ref]

Request(method, path, auth, body) ==
  [method |-> method, path |-> path, auth |-> auth, body |-> body]

Answer(status, requestId, body, readable) ==
  [threw |-> FALSE, status |-> status, request_id |-> requestId, body |-> body,
   readable |-> readable]

FetchRejects == [NoUpstream EXCEPT !.threw = TRUE]

ValidBody == <<"{", "\"", "d", "a", "t", "e", "\"", ":", "\"", "2", "0", "2", "6", "-", "0", "1", "-", "0", "1", "\"", ",", "\"", "t", "i", "t", "l", "e", "\"", ":", "\"", "T", "h", "e", " ", "C", "r", "i", "m", "s", "o", "n", " ", "L", "e", "d", "g", "e", "r", "\"", "}">>
WorkflowNotFound == <<"{", "\"", "m", "e", "s", "s", "a", "g", "e", "\"", ":", "\"", "W", "o", "r", "k", "f", "l", "o", "w", " ", "n", "o", "t", " ", "f", "o", "u", "n", "d", "\"", "}">>
LongBody == [k \in 1..(RawCap + 1) |-> "x"]

Envs ==
  [DEV_AUTH_TOKEN : {Undef, Str(<<>>), Str(<<"k">>)},
   GH_TOKEN : {Undef, Str(<<>>), Str(<<" ">>), Str(<<"t">>)},
   GH_OWNER : {Undef, Str(<<"'", "'">>), Str(<<" ", "'", "o", "w", "n", "e", "r", "'", " ">>)},
   GH_REPO : {Undef, Str(<<" ", "\n", VerticalTab, NoBreakSpace>>),
              Str(<<ByteOrderMark, "r", "\r", "\n">>)},
   GH_WORKFLOW_FILE : {Str(<<".", "g", "i", "t", "h", "u", "b", "/", "w", "o", "r", "k", "f", "l", "o", "w", "s", "/", "a", "u", "d", "i", "t", ".", "y", "m", "l">>)},
   GH_REF : {Undef}]

Bodies ==
  {<<>>, <<"o", "o", "p", "s">>, <<"n", "u", "l", "l">>, <<"\"", "s", "t", "r", "\"">>, <<"{", "}">>, ValidBody,
   <<"{", "\"", "d", "a", "t", "e", "\"", ":", "\"", " ", "\"", ",", "\"", "t", "i", "t", "l", "e", "\"", ":", "\"", "T", "\"", "}">>, <<"{", "\"", "d", "a", "t", "e", "\"", ":", "\"", "d", "\"", ",", "\"", "t", "i", "t", "l", "e", "\"", ":", "\"", "\"", "}">>,
   <<"{", "\"", "d", "a", "t", "e", "\"", ":", "5", ",", "\"", "t", "i", "t", "l", "e", "\"", ":", "\"", "T", "\"", "}">>, <<"{", "\"", "d", "a", "t", "e", "\"", ":", "0", ",", "\"", "t", "i", "t", "l", "e", "\"", ":", "\"", "T", "\"", "}">>,
   <<"{", "\"", "d", "a", "t", "e", "\"", ":", "\"", "d", "\"", ",", "\"", "t", "i", "t", "l", "e", "\"", ":", "t", "r", "u", "e", "}">>, <<"{", "\"", "d", "a", "t", "e", "\"", ":", "[", "]", ",", "\"", "t", "i", "t", "l", "e", "\"", ":", "\"", "T", "\"", "}">>,
   <<"{", "\"", "d", "a", "t", "e", "\"", ":", "\"", "d", "\"", ",", "\"", "t", "i", "t", "l", "e", "\"", ":", "{", "}", "}">>, <<"{", "\"", "d", "a", "t", "e", "\"", ":", "\"", "d", "\"", "}">>,
   <<"{", "\"", "d", "a", "t", "e", "\"", ":", "n", "u", "l", "l", ",", "\"", "t", "i", "t", "l", "e", "\"", ":", "\"", "T", "\"", "}">>, <<"{", "\"", "d", "a", "t", "e", "\"", ":", "f", "a", "l", "s", "e", ",", "\"", "t", "i", "t", "l", "e", "\"", ":", "\"", "T", "\"", "}">>,
   <<"{", "\"", "t", "i", "t", "l", "e", "\"", ":", "{", "\"", "t", "o", "S", "t", "r", "i", "n", "g", "\"", ":", "1", "}", "}">>, <<"{", "\"", "d", "a", "t", "e", "\"", ":", "{", "\"", "t", "o", "S", "t", "r", "i", "n", "g", "\"", ":", "1", "}", ",", "\"", "t", "i", "t", "l", "e", "\"", ":", "\"", "T", "\"", "}">>,
   <<"{", "\"", "d", "a", "t", "e", "\"", ":", "\"", "d", "\"", ",", "\"", "t", "i", "t", "l", "e", "\"", ":", "[", "{", "\"", "t", "o", "S", "t", "r", "i", "n", "g", "\"", ":", "1", "}", "]", "}">>, PaddedBody, LineBreakBody}

Requests ==
  [method : {"OPTIONS", "GET", "POST"},
   path : {<<"/", "a", "u", "d", "i", "t">>, <<"/", "a", "u", "d", "i", "t", "/", "/">>, <<"/">>, <<"/", "a", "u", "d", "i", "t", "s">>},
   auth : {Null, Str(<<>>), Str(<<"k">>), Str(<<"K">>)},
   body : Bodies]

Upstreams ==
  {FetchRejects,
   Answer(204, Null, <<>>, TRUE),
   Answer(200, Str(<<"R", "1">>), <<"{", "}">>, TRUE),
   Answer(299, Null, <<"o", "o", "p", "s">>, TRUE),
   Answer(300, Null, <<"o", "o", "p", "s">>, TRUE),
   Answer(404, Str(<<"R", "1">>), WorkflowNotFound, TRUE),
   Answer(422, Null, <<"{", "\"", "m", "e", "s", "s", "a", "g", "e", "\"", ":", "\"", "\"", "}">>, TRUE),
   Answer(401, Null, <<"{", "}">>, TRUE),
   Answer(403, Null, <<"n", "u", "l", "l">>, TRUE),
   Answer(404, Null, <<"{", "\"", "m", "e", "s", "s", "a", "g", "e", "\"", ":", "0", "}">>, TRUE),
   Answer(400, Null, <<"{", "\"", "m", "e", "s", "s", "a", "g", "e", "\"", ":", "5", "}">>, TRUE),
   Answer(500, Null, <<>>, TRUE),
   Answer(502, Null, LongBody, TRUE),
   Answer(503, Null, <<>>, FALSE)}

-----------------------------------------------------------------------------
(* One invocation, every input *)

Init ==
  /\ env \in Envs
  /\ req = [i \in {1} |-> Idle]
  /\ calls = 0

Next ==
  \/ \E i \in DOMAIN req, request \in Requests : Accept(i, request)
  \/ \E i \in DOMAIN req : BodySettles(i)
  \/ \E i \in DOMAIN req, u \in Upstreams : FetchSettles(i, u)
  \/ \E i \in DOMAIN req : TextSettles(i)

Spec == Init /\ [][Next]_vars

-----------------------------------------------------------------------------
(* Concurrent invocations *)

NInFlight == 2

GoodEnv ==
  Env(Undef, Str(<<"t">>), Str(<<"o", "w", "n", "e", "r">>), Str(<<"r", "e", "p", "o">>), Undef, Undef)

ConcEnvs ==
  {GoodEnv,
   [GoodEnv EXCEPT !.DEV_AUTH_TOKEN = Str(<<"k">>)],
   [GoodEnv EXCEPT !.GH_REPO = Undef]}

ConcRequests ==
  {Request("OPTIONS", <<"/", "a", "u", "d", "i", "t">>, Null, <<>>),
   Request("GET", <<"/", "a", "u", "d", "i", "t">>, Str(<<"k">>), ValidBody),
   Request("POST", <<"/", "a", "u", "d", "i", "t">>, Null, ValidBody),
   Request("POST", <<"/", "a", "u", "d", "i", "t", "/">>, Str(<<"k">>), ValidBody),
   Request("POST", <<"/", "a", "u", "d", "i", "t">>, Str(<<"k">>), <<"{", "\"", "d", "a", "t", "e", "\"", ":", "\"", "d", "\"", "}">>),
   Request("POST", <<"/", "a", "u", "d", "i", "t">>, Str(<<"k">>), <<"{", "\"", "d", "a", "t", "e", "\"", ":", "{", "\"", "t", "o", "S", "t", "r", "i", "n", "g", "\"", ":", "1", "}", ",", "\"", "t", "i", "t", "l", "e", "\"", ":", "\"", "T", "\"", "}">>)}

ConcUpstreams ==
  {FetchRejects,
   Answer(204, Null, <<>>, TRUE),
   Answer(404, Str(<<"R", "1">>), WorkflowNotFound, TRUE),
   Answer(503, Null, <<>>, FALSE)}

InitConc ==
  /\ env \in ConcEnvs
  /\ req = [i \in 1..NInFlight |-> Idle]
  /\ calls = 0

NextConc ==
  \/ \E i \in DOMAIN req, request \in ConcRequests : Accept(i, request)
  \/ \E i \in DOMAIN req : BodySettles(i)
  \/ \E i \in DOMAIN req, u \in ConcUpstreams : FetchSettles(i, u)
  \/ \E i \in DOMAIN req : TextSettles(i)

SpecConc == InitConc /\ [][NextConc]_vars

-----------------------------------------------------------------------------
(* The sanitizer on every short configuration value *)

MaxPieces == 4

Pieces == {<<" ">>, <<"\n">>, <<"'">>, <<"\"">>, <<"a">>, <<"/">>, <<".">>, GithubWorkflows}

RECURSIVE Concat(_)
Concat(ps) == IF ps = <<>> THEN <<>> ELSE Head(ps) \o Concat(Tail(ps))

ConfigValues ==
  {<<" ", "'", "o", "w", "n", "e", "r", "'", " ">>, <<".", "g", "i", "t", "h", "u", "b", "/", "w", "o", "r", "k", "f", "l", "o", "w", "s", "/", "a", "u", "d", "i", "t", ".", "y", "m", "l">>,
   <<VerticalTab>> \o GithubWorkflows \o <<"a">>,
   <<NoBreakSpace, "'", OghamSpaceMark, "a", VerticalTab, "'", ByteOrderMark>>}
    \cup {Concat(ps) : ps \in UNION {[1..n -> Pieces] : n \in 0..MaxPieces}}

SanitizeRequest == Request("POST", <<"/", "a", "u", "d", "i", "t">>, Null, ValidBody)

InitSanitize ==
  /\ env \in {[GoodEnv EXCEPT !.GH_OWNER = Str(s), !.GH_WORKFLOW_FILE = Str(s)] :
                s \in ConfigValues}
  /\ req = [i \in {1} |-> Idle]
  /\ calls = 0

NextSanitize ==
  \/ \E i \in DOMAIN req, request \in {SanitizeRequest} : Accept(i, request)
  \/ \E i \in DOMAIN req : BodySettles(i)
  \/ \E i \in DOMAIN req, u \in ConcUpstreams : FetchSettles(i, u)
  \/ \E i \in DOMAIN req : TextSettles(i)

SpecSanitize == InitSanitize /\ [][NextSanitize]_vars

-----------------------------------------------------------------------------
(* Vocabulary of the properties, stated on the inputs *)

Slots == DOMAIN req

Entered(i) == req[i].pc # "idle"
Answered(i) == req[i].pc = "done"
BodySettled(i) == req[i].pc \in {"fetch", "text", "done", "threw"}

IsPrefix(a, b) == Len(a) <= Len(b) /\ a = SubSeq(b, 1, Len(a))

\* /audit followed by any number of slashes
IsAuditPath(p) == \E n \in 0..Len(p) : p = AuditPath \o [k \in 1..n |-> "/"]

IsPost(i) == req[i].request.method = "POST"
IsPreflight(i) == req[i].request.method = "OPTIONS"
MisRouted(i) == ~IsPost(i) \/ ~IsAuditPath(req[i].request.path)

GateConfigured == env.DEV_AUTH_TOKEN.t = "string" /\ env.DEV_AUTH_TOKEN.v # <<>>
HeaderMatches(i) ==
  /\ req[i].request.auth.t = "string"
  /\ req[i].request.auth.v = env.DEV_AUTH_TOKEN.v
GateRejects(i) == GateConfigured /\ ~HeaderMatches(i)

Spaces ==
  {" ", "\t", "\n", "\r", "\f",
   VerticalTab, NoBreakSpace, ByteOrderMark, OghamSpaceMark}
Blank(s) == \A k \in 1..Len(s) : s[k] \in Spaces

Absent(x) == x.t = "undefined"
BlankString(x) == x.t = "string" /\ Blank(x.v)
NotAString(x) == x.t \notin {"undefined", "string"}
\* the non-strings that are falsy or whose String() is blank
VoidNonString(x) == x \in {Null, Num0, BoolFalse, EmptyArray}

\* an object, or an array holding one, that has no string form
Unconvertible(x) == x.t \in {"object", "array"} /\ ~x.prim

Document(i) == JSONparse(req[i].request.body)

\* a date or a title that cannot be converted to a string
BodyUnconvertible(i) ==
  /\ Document(i).ok
  /\ \E x \in {Document(i).date, Document(i).title} : Unconvertible(x)

\* the body as the property of the body validation states it
BodyLacksAField(i) ==
  \/ ~Document(i).ok
  \/ \E x \in {Document(i).date, Document(i).title} :
       Absent(x) \/ BlankString(x) \/ NotAString(x)

\* the body as the handler treats it
BodyRejected(i) ==
  \/ ~Document(i).ok
  \/ \E x \in {Document(i).date, Document(i).title} :
       Absent(x) \/ BlankString(x) \/ VoidNonString(x)

Unset(x) == x.t = "undefined"
\* unset, or nothing but white space and at most one pair of quotes around it
BlankConfig(x) ==
  \/ Unset(x)
  \/ x.t = "string"
       /\ SelectSeq(x.v, LAMBDA c : c \notin Spaces)
            \in {<<>>, <<"'", "'">>, <<"\"", "\"">>}
NoToken == env.GH_TOKEN \in {Undef, Str(<<>>)}
ConfigIncomplete == NoToken \/ BlankConfig(env.GH_OWNER) \/ BlankConfig(env.GH_REPO)

PassesGate(i) == ~MisRouted(i) /\ ~GateRejects(i)
PassesBody(i) == PassesGate(i) /\ ~BodyRejected(i) /\ ~BodyUnconvertible(i)
Eligible(i) == PassesBody(i) /\ ~ConfigIncomplete

UpstreamAnswered(i) ==
  req[i].pc \in {"text", "done", "threw"} /\ ~req[i].up.threw /\ req[i].up.status # 0
UpstreamOk(i) == UpstreamAnswered(i) /\ req[i].up.status \in 200..299
UpstreamFailed(i) == UpstreamAnswered(i) /\ req[i].up.status \notin 200..299

-----------------------------------------------------------------------------
(* Properties *)

\* C1 as stated: every request whose method is not POST, or whose path
\* without its trailing slashes is not /audit, is answered 404.
C1_EveryOtherRequestIs404 ==
  \A i \in Slots :
    Entered(i) /\ MisRouted(i) => Answered(i) /\ req[i].resp.status = 404

\* C1 amended: an OPTIONS request is answered 204 whatever its path; every
\* other request whose method is not POST, or whose path without its
\* trailing slashes is not /audit, is answered 404 {error: 'Not found'}.
C1_NotFound ==
  \A i \in Slots :
    Entered(i) =>
      /\ IsPreflight(i) => Answered(i) /\ req[i].resp = Preflight
      /\ ~IsPreflight(i) /\ MisRouted(i) =>
           /\ Answered(i)
           /\ req[i].resp.status = 404
           /\ req[i].resp.keys = {"error"}
           /\ req[i].resp.error = "Not found"

C1_Witness ==
  \E i \in Slots :
    /\ req[i].request.method = "GET"
    /\ IsAuditPath(req[i].request.path)
    /\ req[i].resp.status = 404

\* C2: a POST to /audit is answered 401 when DEV_AUTH_TOKEN is configured and
\* X-Dev-Auth is absent or differs from it; when DEV_AUTH_TOKEN is not
\* configured no request is answered 401.
C2_AuthGate ==
  \A i \in Slots :
    Entered(i) =>
      /\ ~MisRouted(i) /\ GateRejects(i) =>
           /\ Answered(i)
           /\ req[i].resp.status = 401
           /\ req[i].resp.error = "Unauthorized"
      /\ ~GateConfigured => req[i].resp.status # 401

C2_Witness ==
  \E i \in Slots :
    /\ ~MisRouted(i)
    /\ GateConfigured
    /\ req[i].request.auth = Null
    /\ req[i].resp.status = 401

\* C3: past the auth gate, a body that does not parse, or whose date or
\* title is absent, empty after trimming or not a string, is answered 400
\* {error: 'Missing date/title'}.
C3_NonStringsAre400 ==
  \A i \in Slots :
    BodySettled(i) /\ PassesGate(i) /\ BodyLacksAField(i) =>
      /\ Answered(i)
      /\ req[i].resp.status = 400
      /\ req[i].resp.error = "Missing date/title"

\* C4 as stated: past body validation, when GH_TOKEN, GH_OWNER or GH_REPO is
\* absent the answer is 500 and each entry of 'missing' is true exactly when
\* its variable is absent.
C4_MissingIsExactlyUnset ==
  \A i \in Slots :
    /\ BodySettled(i)
    /\ PassesBody(i)
    /\ Unset(env.GH_TOKEN) \/ Unset(env.GH_OWNER) \/ Unset(env.GH_REPO)
    => /\ Answered(i)
       /\ req[i].resp.status = 500
       /\ req[i].resp.missing =
            [GH_TOKEN |-> Unset(env.GH_TOKEN),
             GH_OWNER |-> Unset(env.GH_OWNER),
             GH_REPO |-> Unset(env.GH_REPO)]

\* C4 amended: past body validation, when GH_TOKEN is unset or empty, or
\* GH_OWNER or GH_REPO is unset or blank once sanitized, the answer is 500
\* {error: 'Worker not configured'} and each entry of 'missing' is true
\* exactly when its variable is so.
C4_NotConfigured ==
  \A i \in Slots :
    BodySettled(i) /\ PassesBody(i) /\ ConfigIncomplete =>
      /\ Answered(i)
      /\ req[i].resp.status = 500
      /\ req[i].resp.keys = {"error", "missing"}
      /\ req[i].resp.error = "Worker not configured"
      /\ req[i].resp.missing =
           [GH_TOKEN |-> NoToken,
            GH_OWNER |-> BlankConfig(env.GH_OWNER),
            GH_REPO |-> BlankConfig(env.GH_REPO)]

C4_Witness ==
  \E i \in Slots :
    /\ PassesBody(i)
    /\ env.GH_TOKEN = Str(<<" ">>)
    /\ env.GH_OWNER = Str(<<"'", "'">>)
    /\ env.GH_REPO = Str(<<ByteOrderMark, "r", "\r", "\n">>)
    /\ req[i].locals.repo = <<"r">>
    /\ req[i].resp.status = 500
    /\ req[i].resp.missing = [GH_TOKEN |-> FALSE, GH_OWNER |-> TRUE, GH_REPO |-> FALSE]

\* C5: every invocation whose request passes routing, auth, body and
\* configuration checks makes exactly one outbound call, upstream failure or
\* not, and every other invocation makes none; the outbound calls made in
\* all are as many as the invocations that reached the dispatch, a repeated
\* request counting each time.
C5_OneCallPerDispatch ==
  /\ \A i \in Slots :
       req[i].sent = IF Eligible(i) /\ BodySettled(i) THEN 1 ELSE 0
  /\ calls = Cardinality({i \in Slots : Eligible(i) /\ BodySettled(i)})

C5_Witness ==
  \E i \in Slots : \E j \in Slots \ {i} :
    /\ req[i].request = req[j].request
    /\ Answered(i) /\ req[i].resp.status = 502
    /\ Answered(j) /\ req[j].resp.status = 200
    /\ calls = 2

\* C6: a POST to /audit with date and title, past the auth gate, with
\* GH_TOKEN, owner and repo present, is answered 200 {ok: true, queued: true}
\* whenever the upstream answers with a 2xx status.
C6_Queued ==
  \A i \in Slots :
    UpstreamOk(i) /\ Eligible(i) =>
      /\ Answered(i)
      /\ req[i].resp.status = 200
      /\ req[i].resp.keys = {"ok", "queued"}
      /\ req[i].resp.ok
      /\ req[i].resp.queued

C6_Witness ==
  \E i \in Slots :
    /\ Eligible(i)
    /\ UpstreamAnswered(i)
    /\ req[i].up.status = 204
    /\ req[i].resp = Queued

\* the upstream body's message, empty when there is none
UpstreamMessage(i) ==
  LET j == JSONparse(req[i].up.body)
  IN IF j.ok /\ j.message \notin {Undef, Null, Num0, BoolFalse} THEN j.message
     ELSE Str(<<>>)

\* C7: whenever the upstream answers with a non-2xx status the response is a
\* 502 whose 'status' is the upstream status, whose 'message' is the
\* upstream JSON body's message (empty without one) and whose 'raw' is a
\* prefix of the upstream body of at most 2000 characters.
C7_UpstreamFailureIs502 ==
  \A i \in Slots :
    UpstreamFailed(i) /\ req[i].pc # "text" =>
      /\ Answered(i)
      /\ req[i].resp.status = 502
      /\ req[i].resp.upstream = req[i].up.status
      /\ req[i].resp.message = UpstreamMessage(i)
      /\ IsPrefix(req[i].resp.raw, req[i].up.body)
      /\ Len(req[i].resp.raw) <= 2000

\* C9: every request is answered; an answer that reports an error has a
\* JSON body with an 'error' field and a status of 404, 401, 400, 500 or
\* 502; no invocation ends with an exception.
C9_EveryRequestAnswered ==
  \A i \in Slots :
    /\ req[i].pc # "threw"
    /\ Answered(i) /\ req[i].resp.status \notin {200, 204} =>
         /\ "error" \in req[i].resp.keys
         /\ req[i].resp.status \in {404, 401, 400, 500, 502}

StageOrder == <<"method/path", "auth", "body", "config", "network", "translate">>

\* the status the first failing stage gives, and the stages run up to it
FirstFailure(i) ==
  IF MisRouted(i) THEN [status |-> 404, stages |-> 1]
  ELSE IF GateRejects(i) THEN [status |-> 401, stages |-> 2]
  ELSE IF BodyRejected(i) THEN [status |-> 400, stages |-> 3]
  ELSE IF ConfigIncomplete THEN [status |-> 500, stages |-> 4]
  ELSE IF UpstreamFailed(i) THEN [status |-> 502, stages |-> 6]
  ELSE [status |-> 200, stages |-> 6]

\* C10: the stages run in the order method/path, auth, body, config,
\* network, translate; the answer is that of the first stage that fails; no
\* stage after it is run, the body is not read before the auth gate has
\* passed and no outbound call is made before the configuration check has.
C10_FirstFailureDecides ==
  \A i \in Slots :
    /\ IsPrefix(req[i].stages, StageOrder)
    /\ Answered(i) /\ ~IsPreflight(i) =>
         /\ req[i].resp.status = FirstFailure(i).status
         /\ Len(req[i].stages) = FirstFailure(i).stages
         /\ FirstFailure(i).stages < 3 => req[i].locals = NoLocals
         /\ FirstFailure(i).stages < 5 => req[i].sent = 0 /\ req[i].up = NoUpstream

C10_Witness ==
  \E i \in Slots :
    /\ Answered(i)
    /\ ~IsPreflight(i)
    /\ MisRouted(i) /\ GateRejects(i) /\ BodyRejected(i) /\ ConfigIncomplete
    /\ req[i].resp.status = 404
    /\ req[i].stages = <<"method/path">>

-----------------------------------------------------------------------------
(* Properties of the sanitizer *)

Sanitized(i) == BodySettled(i)

\* C8 as stated: sanitizing a sanitized value gives that value back;
\* " 'owner' " gives owner and .github/workflows/audit.yml gives audit.yml.
C8_Idempotent ==
  \A i \in Slots :
    Sanitized(i) =>
      /\ cleanText(Str(req[i].locals.owner)) = req[i].locals.owner
      /\ sanitizeWorkflow(Str(req[i].locals.workflow)) = req[i].locals.workflow

Wrapped(s) == Len(s) >= 2 /\ s[1] = s[Len(s)] /\ s[1] \in {"'", "\""}

\* nothing is left for the workflow sanitizer to remove or to default
Settled(w) ==
  /\ w # <<>>
  /\ ~Wrapped(w)
  /\ w[1] # "/"
  /\ \A h \in {<<>>, <<".">>, <<"/">>, <<".", "/">>} :
       ~IsPrefix(h \o GithubWorkflows, w)

\* C8 amended: the sanitizer removes one layer at a time: sanitizing a
\* sanitized value gives that value back when the value is not itself in
\* quotes and, for the workflow identifier, is not empty and does not start
\* with a slash or a .github/workflows/ prefix; " 'owner' " gives owner and
\* .github/workflows/audit.yml gives audit.yml.
C8_OneLayer ==
  \A i \in Slots :
    Sanitized(i) =>
      /\ ~Wrapped(req[i].locals.owner) =>
           cleanText(Str(req[i].locals.owner)) = req[i].locals.owner
      /\ Settled(req[i].locals.workflow) =>
           sanitizeWorkflow(Str(req[i].locals.workflow)) = req[i].locals.workflow
      /\ env.GH_OWNER = Str(<<" ", "'", "o", "w", "n", "e", "r", "'", " ">>) => req[i].locals.owner = <<"o", "w", "n", "e", "r">>
      /\ env.GH_WORKFLOW_FILE = Str(<<".", "g", "i", "t", "h", "u", "b", "/", "w", "o", "r", "k", "f", "l", "o", "w", "s", "/", "a", "u", "d", "i", "t", ".", "y", "m", "l">>) =>
           req[i].locals.workflow = <<"a", "u", "d", "i", "t", ".", "y", "m", "l">>

C8_Witness ==
  \E i \in Slots :
    /\ Sanitized(i)
    /\ env.GH_OWNER = Str(<<" ", "'", "o", "w", "n", "e", "r", "'", " ">>)
    /\ req[i].locals.owner = <<"o", "w", "n", "e", "r">>
    /\ cleanText(Str(req[i].locals.owner)) = <<"o", "w", "n", "e", "r">>

====
